---------------------------- MODULE Spec2Model ----------------------------
(***************************************************************************)
(* A model of the two command-line drivers of the repository:              *)
(*   allknn   (src/mlpack/methods/neighbor_search/allknn_main.cpp)         *)
(*   fastmks  (src/mlpack/methods/fastmks/fastmks_main.cpp)                *)
(* Each run of main() is a sequence of steps, tracked by pc.  The state    *)
(* records what main() holds (parsed parameters, loaded matrices, result   *)
(* matrices, permutation vectors) and what it has done so far (trees       *)
(* built, engine created, Search and Unmap calls, files saved, warnings    *)
(* logged, fatal error raised).                                            *)
(*                                                                         *)
(* Numbers that are doubles in the programs (the cover tree base) are      *)
(* kept in tenths, so that 2.0 is 20 and 1.3 is 13.                        *)
(***************************************************************************)
EXTENDS Integers, Sequences, FiniteSets

---------------------------------------------------------------------------
(* Bounds of the model. *)

\* Largest number of reference points a loaded reference file holds.
MaxRef == 2
\* Largest number of query points a loaded query file holds.
MaxQuery == 1
\* Largest leaf size given on the command line besides the default.
MaxLeaf == 2
\* Number of rows (the dimension) of every non-empty loaded matrix.
Dim == 1
\* Largest number of failed draws of the random basis that is followed.
MaxAttempts == 1

---------------------------------------------------------------------------
(* Program constants. *)

\* PARAM_INT("leaf_size", ..., 20)
DefaultLeafSize == 20
\* PARAM_DOUBLE("base", ..., 2.0), in tenths
DefaultBase == 20
\* TreeType refTree(referenceData, 1.3), in tenths
AllknnRefCoverBase == 13
\* TreeType queryTree(queryData, 1.3), in tenths
AllknnQueryCoverBase == 13
\* RStarTree(data, maxLeafSize, minLeafSize, maxNumChildren = 5, ...)
RStarMaxChildren == 5
\* RStarTree(data, maxLeafSize, minLeafSize, 5, minNumChildren = 2, ...)
RStarMinChildren == 2
\* RStarTree(data, maxLeafSize, minLeafSize, 5, 2, firstDataIndex = 0)
RStarFirstDataIndex == 0

\* The largest size_t of the model.  size_t is narrowed to 31 bits, the
\* widest unsigned range the integers of TLC hold; what matters is kept:
\* a negative int converted to size_t is far above every matrix size.
SizeMax == 2147483646 + 1

\* size_t k = CLI::GetParam<int>("k"): the conversion int -> size_t wraps
\* a negative value around to the top of the unsigned range.
ToSizeT(i) == IF i < 0 THEN (SizeMax + i) + 1 ELSE i

---------------------------------------------------------------------------
(* Input domains. *)

Programs == {"allknn", "fastmks"}

\* --k: negative, zero, valid, and larger than any reference set.
KValues == -1 .. (MaxRef + 1)

\* --leaf_size: negative, zero, small valid values, and the default.
LeafValues == (-1 .. MaxLeaf) \cup {DefaultLeafSize}

\* --base, in tenths, when the user gives one.
BaseValues == {13, 30}

\* --kernel: the seven documented names, the three names that only the
\* validation knows, and a name nothing knows.
KernelNames == {"linear", "polynomial", "cosine", "gaussian", "epanechnikov",
                "triangular", "hyptan", "graph", "approxGraph", "inv-mq",
                "bogus"}

\* The order in which --cover_tree and --r_tree were given on the command
\* line (each at most once).
TreeArgs == {<<>>, <<"cover_tree">>, <<"r_tree">>,
             <<"cover_tree", "r_tree">>, <<"r_tree", "cover_tree">>}

\* --query_file: not given (the default "" is read back), given with an
\* empty name, given with the name of a file.
QueryArgs == {[passed |-> FALSE, file |-> ""],
              [passed |-> TRUE, file |-> ""],
              [passed |-> TRUE, file |-> "q.csv"]}

\* --seed: negative, zero (the clock is used) and positive.
SeedValues == {-1, 0, 1}

\* std::time(NULL) at the moment of a run.
ClockValues == {2, 3}

\* What one pass of the random basis loop draws: whether arma::qr succeeded
\* on the random matrix and, if it did, whether det(q) >= 0 after the sign
\* correction.
Outcomes == {[qrOk |-> FALSE, detOk |-> FALSE],
             [qrOk |-> TRUE, detOk |-> FALSE],
             [qrOk |-> TRUE, detOk |-> TRUE]}

Range(s) == {s[i] : i \in 1 .. Len(s)}

\* A matrix is known by its shape and, for a result matrix, by whether its
\* indices are those of the search ("raw") or mapped back ("remapped").
Mat(r, c, st) == [n_rows |-> r, n_cols |-> c, stage |-> st]
EmptyMat == Mat(0, 0, "empty")
NElem(m) == m.n_rows * m.n_cols

\* The matrix data::Load returns for a file holding c points.
Loaded(c) == IF c = 0 THEN Mat(0, 0, "data") ELSE Mat(Dim, c, "data")

---------------------------------------------------------------------------
VARIABLES
    prog,       \* which executable runs
    pc,         \* position of main()
    cli,        \* the parsed command line
    referenceData, queryData,     \* arma::mat referenceData, queryData
    fatal,      \* "none", or the reason Log::Fatal ended the run
    warnings,   \* the warnings logged through Log::Warn
    basis,      \* the random basis loop: failed draws, applications of q
    rng,        \* the random generator: seeded?, its seed, draws made
    twin,       \* a second run of the same command line on the same files:
                \* its random generator and its random basis loop
    trees,      \* the trees constructed so far, in order
    engine,     \* the search objects (AllkNN / FastMKS) created so far
    kernel,     \* fastmks: the kernel object the dispatch created, or "none"
    searches,   \* the Search calls made so far, in order
    oldFromNewRefs, oldFromNewQueries,  \* kd-tree permutation vectors filled?
    unmaps,     \* the Unmap calls made so far
    out,        \* allknn kd-tree path: neighborsOut / distancesOut
    results,    \* neighbors / distances (allknn), indices / kernels (fastmks)
    saved,      \* the data::Save calls made so far, in order
    log         \* every build, search, unmap and save, in order

vars == <<prog, pc, cli, referenceData, queryData, fatal, warnings, basis,
          rng, twin, trees, engine, kernel, searches, oldFromNewRefs, oldFromNewQueries,
          unmaps, out, results, saved, log>>

\* What the run has done so far (everything but its position and inputs).
done_vars == <<trees, engine, kernel, searches, oldFromNewRefs,
               oldFromNewQueries, unmaps, out, results, saved, log>>

\* The parameters before the command line is parsed: the defaults of the
\* PARAM_* declarations (a required parameter has none: 0 stands for it).
DefaultCli ==
    [kInt |-> 0, lsInt |-> DefaultLeafSize, naive |-> FALSE, single |-> FALSE,
     treeArgs |-> <<>>, randomBasis |-> FALSE,
     queryPassed |-> FALSE, queryFile |-> "",
     kernelType |-> "linear", baseGiven |-> FALSE, base |-> DefaultBase,
     kernelsPassed |-> FALSE, indicesPassed |-> FALSE, seed |-> 0]

\* The random basis loop before its first pass: no failed draw, q applied to
\* neither matrix (refQ, queryQ: the number of the draw whose q was applied,
\* 0 for none), no draw made.
NoBasis ==
    [failed |-> 0, ref |-> 0, query |-> 0, refQ |-> 0, queryQ |-> 0,
     draws |-> <<>>]

\* The random generator before math::RandomSeed is called.
Unseeded == [seeded |-> FALSE, seed |-> 0, draws |-> 0]

Init ==
    /\ prog \in Programs
    /\ pc = "parse"
    /\ cli = DefaultCli
    /\ referenceData = EmptyMat
    /\ queryData = EmptyMat
    /\ fatal = "none"
    /\ warnings = {}
    /\ basis = NoBasis
    /\ rng = Unseeded
    /\ twin = [rng |-> Unseeded, basis |-> NoBasis, left |-> FALSE]
    /\ trees = <<>>
    /\ engine = <<>>
    /\ kernel = "none"
    /\ searches = <<>>
    /\ oldFromNewRefs = FALSE
    /\ oldFromNewQueries = FALSE
    /\ unmaps = <<>>
    /\ out = EmptyMat
    /\ results = EmptyMat
    /\ saved = <<>>
    /\ log = <<>>

---------------------------------------------------------------------------
(* The library calls main() makes. *)

\* CLI::HasParam(name) for a flag: the flag was given on the command line.
HasParam(c, name) == name \in Range(c.treeArgs)

\* Log::Fatal << ... << endl: the run ends here; nothing after it runs.
LogFatal(reason) ==
    /\ fatal' = reason
    /\ pc' = "aborted"

\* Search(...) fills the two result matrices with k rows and one column per
\* query point.
SearchResult(k, numQueries) == Mat(k, numQueries, "raw")

\* Unmap(...) writes the mapped-back copy of its input.
Unmapped(m) == [m EXCEPT !.stage = "remapped"]


\* A tree: which data it indexes, its type, how many points it holds, its
\* metric and its construction parameters.
Tree(side, variant, data, metric, params) ==
    [side |-> side, variant |-> variant, n |-> data.n_cols,
     metric |-> metric, params |-> params]

\* A search object: built over the raw reference matrix in naive mode, or
\* over a reference tree in single-tree or dual-tree mode.
Engine(naive, single, variant, adapter) ==
    [naive |-> naive, single |-> single, variant |-> variant,
     adapter |-> adapter]

\* The mode in which a search object runs its Search calls.
ModeOf(e) == IF e.naive THEN "naive" ELSE IF e.single THEN "single" ELSE "dual"

\* A Search call on search object e: form is "self" (no query points: the
\* reference set against itself), "points" (a query matrix) or "tree" (a
\* query tree); queryTree is the position in trees of the query tree, or 0.
SearchCall(e, form, k, numQueries, queryTree) ==
    [form |-> form, mode |-> ModeOf(e), k |-> k, numQueries |-> numQueries,
     adapter |-> e.adapter, variant |-> e.variant, queryTree |-> queryTree]

---------------------------------------------------------------------------
(* allknn: main() of allknn_main.cpp. *)

\* if (queryFile != "")
AllknnLoadHasQuery(c) == c.queryFile # ""

\* if (k > referenceData.n_cols)
AllknnInvalidK_Off(k, n) == k > n + 1
AllknnInvalidK(k, n) == k > n

\* if (lsInt < 1)
AllknnInvalidLeafSize_Off(ls) == ls < 0
AllknnInvalidLeafSize(ls) == ls < 1

\* The branch main() takes: if (naive) ... else if (!HasParam("cover_tree"))
\* { if (!HasParam("r_tree")) kd-tree else R*-tree } else cover tree.
AllknnBranch_LastFlag(c) ==
    IF c.naive THEN "naive"
    ELSE IF c.treeArgs = <<>> THEN "kd"
    ELSE IF c.treeArgs[Len(c.treeArgs)] = "cover_tree" THEN "cover"
    ELSE "rstar"
AllknnBranch(c) ==
    IF c.naive THEN "naive"
    ELSE IF ~HasParam(c, "cover_tree")
         THEN (IF ~HasParam(c, "r_tree") THEN "kd" ELSE "rstar")
         ELSE "cover"

\* The query tests of the four branches.
NaiveHasQuery(c) == c.queryFile # ""
KdHasQuery(c) == c.queryFile # ""
RStarHasQuery(c) == c.queryFile # ""
CoverHasQuery(c) == c.queryPassed

\* if (seed != 0) math::RandomSeed((size_t) seed);
\* else math::RandomSeed((size_t) std::time(NULL));
RandomSeedFor_Clock(seed, clock) == clock
RandomSeedFor(seed, clock) == IF seed # 0 THEN ToSizeT(seed) ELSE clock

\* math::RandomSeed(s)
Seeded(s) == [seeded |-> TRUE, seed |-> s, draws |-> 0]

\* CLI::ParseCommandLine, the seeding of the random generator and the
\* CLI::GetParam / CLI::HasParam reads.  The second run reads the same
\* command line at a time of its own.
AllknnParse ==
    /\ prog = "allknn" /\ pc = "parse"
    /\ \E kI \in KValues, ls \in LeafValues, nv \in BOOLEAN, sg \in BOOLEAN,
          rb \in BOOLEAN, ta \in TreeArgs, qa \in QueryArgs,
          sd \in SeedValues, clock \in ClockValues, clock2 \in ClockValues :
          /\ cli' = [DefaultCli EXCEPT !.kInt = kI, !.lsInt = ls,
                                       !.naive = nv,
                                       !.single = sg, !.randomBasis = rb,
                                       !.treeArgs = ta,
                                       !.queryPassed = qa.passed,
                                       !.queryFile = qa.file,
                                       !.seed = sd]
          /\ rng' = Seeded(RandomSeedFor(sd, clock))
          /\ twin' = [twin EXCEPT !.rng = Seeded(RandomSeedFor(sd, clock2))]
    /\ pc' = "load_ref"
    /\ UNCHANGED <<prog, referenceData, queryData, fatal, warnings, basis>>
    /\ UNCHANGED done_vars

\* data::Load(referenceFile, referenceData, true)
AllknnLoadReference ==
    /\ prog = "allknn" /\ pc = "load_ref"
    /\ \E c \in 1 .. MaxRef : referenceData' = Loaded(c)
    /\ pc' = "load_query"
    /\ UNCHANGED <<prog, cli, queryData, fatal, warnings, basis,
                 rng, twin>>
    /\ UNCHANGED done_vars

\* if (queryFile != "") data::Load(queryFile, queryData, true)
AllknnLoadQuery ==
    /\ prog = "allknn" /\ pc = "load_query"
    /\ IF AllknnLoadHasQuery(cli)
       THEN \E c \in 0 .. MaxQuery : queryData' = Loaded(c)
       ELSE queryData' = queryData
    /\ pc' = "check_k"
    /\ UNCHANGED <<prog, cli, referenceData, fatal, warnings, basis,
                 rng, twin>>
    /\ UNCHANGED done_vars

\* Sanity check on k value.
AllknnCheckK ==
    /\ prog = "allknn" /\ pc = "check_k"
    /\ IF AllknnInvalidK(ToSizeT(cli.kInt), referenceData.n_cols)
       THEN LogFatal("k")
       ELSE pc' = "check_leaf" /\ fatal' = fatal
    /\ UNCHANGED <<prog, cli, referenceData, queryData, warnings, basis,
                 rng, twin>>
    /\ UNCHANGED done_vars

\* Sanity check on leaf size.
AllknnCheckLeafSize ==
    /\ prog = "allknn" /\ pc = "check_leaf"
    /\ IF AllknnInvalidLeafSize(cli.lsInt)
       THEN LogFatal("leaf_size")
       ELSE pc' = "warn" /\ fatal' = fatal
    /\ UNCHANGED <<prog, cli, referenceData, queryData, warnings, basis,
                 rng, twin>>
    /\ UNCHANGED done_vars

\* The two warnings: naive overrides single mode, cover_tree overrides
\* r_tree.
AllknnWarn ==
    /\ prog = "allknn" /\ pc = "warn"
    /\ warnings' = warnings
          \cup (IF cli.single /\ cli.naive THEN {"single ignored"} ELSE {})
          \cup (IF HasParam(cli, "cover_tree") /\ HasParam(cli, "r_tree")
                THEN {"cover_tree overrides r_tree"} ELSE {})
    /\ pc' = "basis"
    /\ UNCHANGED <<prog, cli, referenceData, queryData, fatal, basis,
                 rng, twin>>
    /\ UNCHANGED done_vars

\* if (arma::qr(q, r, randn(...))) { ...; if (arma::det(q) >= 0) { ... break;
\* } }: the pass leaves the loop.
BasisAccepted_NoDetTest(o) == o.qrOk
BasisAccepted(o) == o.qrOk /\ o.detOk

\* The loop after one pass that drew o: either q is applied to the reference
\* matrix and, if (queryFile != ""), to the query matrix, or the draw failed.
BasisPass(b, o, c) ==
    LET n == Len(b.draws) + 1 IN
    IF BasisAccepted(o)
    THEN [b EXCEPT !.draws = Append(@, o),
                   !.ref = @ + 1, !.refQ = n,
                   !.query = IF c.queryFile # "" THEN @ + 1 ELSE @,
                   !.queryQ = IF c.queryFile # "" THEN n ELSE @]
    ELSE [b EXCEPT !.draws = Append(@, o), !.failed = @ + 1]

\* if (randomBasis) while (true) { draw; if (qr(...)) { ...; if (det(q) >= 0)
\* { referenceData = q * referenceData; if (queryFile != "") queryData =
\* q * queryData; break; } } }.  One step is one pass of the loop.
\* One pass of the loop draws from the generator, which is a function of
\* its seed and of the draws made before: two generators with the same seed
\* and the same number of draws behind them draw the same.  The second run
\* makes its passes alongside, until it leaves its loop.
AllknnRandomBasis ==
    /\ prog = "allknn" /\ pc = "basis"
    /\ IF ~cli.randomBasis
       THEN pc' = "run" /\ UNCHANGED <<basis, rng, twin>>
       ELSE \E o \in Outcomes, o2 \in Outcomes :
               /\ (twin.rng = rng) => (o2 = o)
               /\ twin.left => (o2 = o)
               /\ BasisAccepted(o) \/ basis.failed < MaxAttempts
               /\ basis' = BasisPass(basis, o, cli)
               /\ rng' = [rng EXCEPT !.draws = @ + 1]
               /\ twin' = IF twin.left THEN twin
                          ELSE [rng |-> [twin.rng EXCEPT !.draws = @ + 1],
                                basis |-> BasisPass(twin.basis, o2, cli),
                                left |-> BasisAccepted(o2)]
               /\ pc' = IF BasisAccepted(o) THEN "run" ELSE pc
    /\ UNCHANGED <<prog, cli, referenceData, queryData, fatal, warnings>>
    /\ UNCHANGED done_vars

\* What every step after the random basis leaves alone.
run_fixed == <<prog, cli, referenceData, queryData, fatal, warnings, basis,
                 rng, twin>>

\* if (naive) { AllkNN allknn(referenceData, false, naive); Search(...) }
AllknnNaiveSearch ==
    /\ prog = "allknn" /\ pc = "run" /\ AllknnBranch(cli) = "naive"
    /\ LET e == Engine(cli.naive, FALSE, "none", "EuclideanDistance")
           k == ToSizeT(cli.kInt)
           s == IF NaiveHasQuery(cli)
                THEN SearchCall(e, "points", k, queryData.n_cols, 0)
                ELSE SearchCall(e, "self", k, referenceData.n_cols, 0)
       IN /\ engine' = Append(engine, e)
          /\ searches' = Append(searches, s)
          /\ results' = SearchResult(s.k, s.numQueries)
          /\ log' = log \o <<"engine", "search">>
    /\ pc' = "save"
    /\ UNCHANGED run_fixed
    /\ UNCHANGED <<trees, kernel, oldFromNewRefs, oldFromNewQueries, unmaps,
                   out, saved>>


\* size_t leafSize = lsInt
LeafSize(c) == ToSizeT(c.lsInt)

\* KDTree<EuclideanDistance, ...>(data, oldFromNew, leafSize)
KdTree(side, data, leafSize) ==
    Tree(side, "kd", data, "EuclideanDistance", <<leafSize>>)

\* RStarTree<EuclideanDistance, ...>(data, leafSize, leafSize * 0.4, 5, 2, 0)
\* (the double leafSize * 0.4 is truncated to the size_t minLeafSize).
RStarTree(side, data, leafSize) ==
    Tree(side, "rstar", data, "EuclideanDistance",
         <<leafSize, (leafSize * 4) \div 10, RStarMaxChildren,
           RStarMinChildren, RStarFirstDataIndex>>)

\* StandardCoverTree<metric::EuclideanDistance, ...>(data, 1.3)
AllknnCoverTree(side, data, base) ==
    Tree(side, "cover", data, "EuclideanDistance", <<base>>)

\* Which Unmap overload main() calls after the kd-tree search.
UnmapCase_NoSingleTest(c) ==
    IF c.queryFile # "" THEN "ref+query" ELSE "ref+ref"
UnmapCase(c) ==
    IF (c.queryFile # "") /\ ~c.single THEN "ref+query"
    ELSE IF (c.queryFile # "") /\ c.single THEN "ref"
    ELSE "ref+ref"

(* The kd-tree branch. *)

\* TreeType refTree(referenceData, oldFromNewRefs, leafSize);
\* AllkNN allknn(&refTree, singleMode);
KdBuildRefTree ==
    /\ prog = "allknn" /\ pc = "run" /\ AllknnBranch(cli) = "kd"
    /\ trees' = Append(trees, KdTree("ref", referenceData, LeafSize(cli)))
    /\ oldFromNewRefs' = TRUE
    /\ engine' = Append(engine,
                    Engine(FALSE, cli.single, "kd", "EuclideanDistance"))
    /\ log' = log \o <<"build_ref", "engine">>
    /\ pc' = "kd_query"
    /\ UNCHANGED run_fixed
    /\ UNCHANGED <<kernel, searches, oldFromNewQueries, unmaps, out, results,
                   saved>>

\* query file given, dual-tree:
\* TreeType queryTree(queryData, oldFromNewQueries, leafSize)
KdBuildQueryTree ==
    /\ prog = "allknn" /\ pc = "kd_query"
    /\ KdHasQuery(cli) /\ ~cli.single
    /\ trees' = Append(trees, KdTree("query", queryData, LeafSize(cli)))
    /\ oldFromNewQueries' = TRUE
    /\ log' = Append(log, "build_query")
    /\ pc' = "kd_search_tree"
    /\ UNCHANGED run_fixed
    /\ UNCHANGED <<engine, kernel, searches, oldFromNewRefs, unmaps, out,
                   results, saved>>

\* allknn.Search(&queryTree, k, neighborsOut, distancesOut)
KdSearchTree ==
    /\ prog = "allknn" /\ pc = "kd_search_tree"
    /\ LET s == SearchCall(engine[Len(engine)], "tree", ToSizeT(cli.kInt),
                           queryData.n_cols, Len(trees))
       IN /\ searches' = Append(searches, s)
          /\ out' = SearchResult(s.k, s.numQueries)
    /\ log' = Append(log, "search")
    /\ pc' = "kd_unmap"
    /\ UNCHANGED run_fixed
    /\ UNCHANGED <<trees, engine, kernel, oldFromNewRefs, oldFromNewQueries,
                   unmaps, results, saved>>

\* query file given, single-tree:
\* allknn.Search(queryData, k, neighborsOut, distancesOut)
KdSearchPoints ==
    /\ prog = "allknn" /\ pc = "kd_query"
    /\ KdHasQuery(cli) /\ cli.single
    /\ LET s == SearchCall(engine[Len(engine)], "points", ToSizeT(cli.kInt),
                           queryData.n_cols, 0)
       IN /\ searches' = Append(searches, s)
          /\ out' = SearchResult(s.k, s.numQueries)
    /\ log' = Append(log, "search")
    /\ pc' = "kd_unmap"
    /\ UNCHANGED run_fixed
    /\ UNCHANGED <<trees, engine, kernel, oldFromNewRefs, oldFromNewQueries,
                   unmaps, results, saved>>

\* no query file: allknn.Search(k, neighborsOut, distancesOut)
KdSearchSelf ==
    /\ prog = "allknn" /\ pc = "kd_query"
    /\ ~KdHasQuery(cli)
    /\ LET s == SearchCall(engine[Len(engine)], "self", ToSizeT(cli.kInt),
                           referenceData.n_cols, 0)
       IN /\ searches' = Append(searches, s)
          /\ out' = SearchResult(s.k, s.numQueries)
    /\ log' = Append(log, "search")
    /\ pc' = "kd_unmap"
    /\ UNCHANGED run_fixed
    /\ UNCHANGED <<trees, engine, kernel, oldFromNewRefs, oldFromNewQueries,
                   unmaps, results, saved>>

\* Map the results back to the correct places: one of the three Unmap calls,
\* from neighborsOut / distancesOut into neighbors / distances.
KdUnmap_RawCopied ==
    /\ prog = "allknn" /\ pc = "kd_unmap"
    /\ results' = out
    /\ pc' = "save"
    /\ UNCHANGED run_fixed
    /\ UNCHANGED <<trees, engine, kernel, searches, oldFromNewRefs,
                   oldFromNewQueries, unmaps, out, saved, log>>
KdUnmap ==
    /\ prog = "allknn" /\ pc = "kd_unmap"
    /\ LET form == UnmapCase(cli)
           u == [form |-> form,
                 refPermFilled |-> oldFromNewRefs,
                 queryPerm |-> CASE form = "ref+query" -> "oldFromNewQueries"
                                 [] form = "ref" -> "none"
                                 [] form = "ref+ref" -> "oldFromNewRefs",
                 queryPermFilled |-> CASE form = "ref+query" -> oldFromNewQueries
                                       [] form = "ref" -> FALSE
                                       [] form = "ref+ref" -> oldFromNewRefs]
       IN unmaps' = Append(unmaps, u)
    /\ results' = Unmapped(out)
    /\ log' = Append(log, "unmap")
    /\ pc' = "save"
    /\ UNCHANGED run_fixed
    /\ UNCHANGED <<trees, engine, kernel, searches, oldFromNewRefs,
                   oldFromNewQueries, out, saved>>

(* The R*-tree branch. *)

\* TreeType refTree(referenceData, leafSize, leafSize * 0.4, 5, 2, 0);
\* AllkNNType allknn(&refTree, singleMode);
RStarBuildRefTree ==
    /\ prog = "allknn" /\ pc = "run" /\ AllknnBranch(cli) = "rstar"
    /\ trees' = Append(trees, RStarTree("ref", referenceData, LeafSize(cli)))
    /\ engine' = Append(engine,
                    Engine(FALSE, cli.single, "rstar", "EuclideanDistance"))
    /\ log' = log \o <<"build_ref", "engine">>
    /\ pc' = "r_query"
    /\ UNCHANGED run_fixed
    /\ UNCHANGED <<kernel, searches, oldFromNewRefs, oldFromNewQueries,
                   unmaps, out, results, saved>>

\* TreeType queryTree(queryData, leafSize, leafSize * 0.4, 5, 2, 0)
RStarBuildQueryTree ==
    /\ prog = "allknn" /\ pc = "r_query"
    /\ RStarHasQuery(cli) /\ ~cli.single
    /\ trees' = Append(trees, RStarTree("query", queryData, LeafSize(cli)))
    /\ log' = Append(log, "build_query")
    /\ pc' = "r_search_tree"
    /\ UNCHANGED run_fixed
    /\ UNCHANGED <<engine, kernel, searches, oldFromNewRefs,
                   oldFromNewQueries, unmaps, out, results, saved>>

\* allknn.Search(&queryTree, k, neighbors, distances)
RStarSearchTree ==
    /\ prog = "allknn" /\ pc = "r_search_tree"
    /\ LET s == SearchCall(engine[Len(engine)], "tree", ToSizeT(cli.kInt),
                           queryData.n_cols, Len(trees))
       IN /\ searches' = Append(searches, s)
          /\ results' = SearchResult(s.k, s.numQueries)
    /\ log' = Append(log, "search")
    /\ pc' = "save"
    /\ UNCHANGED run_fixed
    /\ UNCHANGED <<trees, engine, kernel, oldFromNewRefs, oldFromNewQueries,
                   unmaps, out, saved>>

\* allknn.Search(queryData, k, neighbors, distances)
RStarSearchPoints ==
    /\ prog = "allknn" /\ pc = "r_query"
    /\ RStarHasQuery(cli) /\ cli.single
    /\ LET s == SearchCall(engine[Len(engine)], "points", ToSizeT(cli.kInt),
                           queryData.n_cols, 0)
       IN /\ searches' = Append(searches, s)
          /\ results' = SearchResult(s.k, s.numQueries)
    /\ log' = Append(log, "search")
    /\ pc' = "save"
    /\ UNCHANGED run_fixed
    /\ UNCHANGED <<trees, engine, kernel, oldFromNewRefs, oldFromNewQueries,
                   unmaps, out, saved>>

\* allknn.Search(k, neighbors, distances)
RStarSearchSelf ==
    /\ prog = "allknn" /\ pc = "r_query"
    /\ ~RStarHasQuery(cli)
    /\ LET s == SearchCall(engine[Len(engine)], "self", ToSizeT(cli.kInt),
                           referenceData.n_cols, 0)
       IN /\ searches' = Append(searches, s)
          /\ results' = SearchResult(s.k, s.numQueries)
    /\ log' = Append(log, "search")
    /\ pc' = "save"
    /\ UNCHANGED run_fixed
    /\ UNCHANGED <<trees, engine, kernel, oldFromNewRefs, oldFromNewQueries,
                   unmaps, out, saved>>

(* The cover tree branch. *)

\* TreeType refTree(referenceData, 1.3); AllkNNType allknn(&refTree,
\* singleMode), with metric::LMetric<2, true>.
CoverBuildRefTree ==
    /\ prog = "allknn" /\ pc = "run" /\ AllknnBranch(cli) = "cover"
    /\ trees' = Append(trees,
                    AllknnCoverTree("ref", referenceData, AllknnRefCoverBase))
    /\ engine' = Append(engine,
                    Engine(FALSE, cli.single, "cover", "LMetric<2, true>"))
    /\ log' = log \o <<"build_ref", "engine">>
    /\ pc' = "c_query"
    /\ UNCHANGED run_fixed
    /\ UNCHANGED <<kernel, searches, oldFromNewRefs, oldFromNewQueries,
                   unmaps, out, results, saved>>

\* if (CLI::HasParam("query_file")) if (!singleMode)
\* TreeType queryTree(queryData, 1.3)
CoverBuildQueryTree ==
    /\ prog = "allknn" /\ pc = "c_query"
    /\ CoverHasQuery(cli) /\ ~cli.single
    /\ trees' = Append(trees,
                    AllknnCoverTree("query", queryData, AllknnQueryCoverBase))
    /\ log' = Append(log, "build_query")
    /\ pc' = "c_search_tree"
    /\ UNCHANGED run_fixed
    /\ UNCHANGED <<engine, kernel, searches, oldFromNewRefs,
                   oldFromNewQueries, unmaps, out, results, saved>>

\* allknn.Search(&queryTree, k, neighbors, distances)
CoverSearchTree ==
    /\ prog = "allknn" /\ pc = "c_search_tree"
    /\ LET s == SearchCall(engine[Len(engine)], "tree", ToSizeT(cli.kInt),
                           queryData.n_cols, Len(trees))
       IN /\ searches' = Append(searches, s)
          /\ results' = SearchResult(s.k, s.numQueries)
    /\ log' = Append(log, "search")
    /\ pc' = "save"
    /\ UNCHANGED run_fixed
    /\ UNCHANGED <<trees, engine, kernel, oldFromNewRefs, oldFromNewQueries,
                   unmaps, out, saved>>

\* allknn.Search(queryData, k, neighbors, distances)
CoverSearchPoints ==
    /\ prog = "allknn" /\ pc = "c_query"
    /\ CoverHasQuery(cli) /\ cli.single
    /\ LET s == SearchCall(engine[Len(engine)], "points", ToSizeT(cli.kInt),
                           queryData.n_cols, 0)
       IN /\ searches' = Append(searches, s)
          /\ results' = SearchResult(s.k, s.numQueries)
    /\ log' = Append(log, "search")
    /\ pc' = "save"
    /\ UNCHANGED run_fixed
    /\ UNCHANGED <<trees, engine, kernel, oldFromNewRefs, oldFromNewQueries,
                   unmaps, out, saved>>

\* allknn.Search(k, neighbors, distances)
CoverSearchSelf ==
    /\ prog = "allknn" /\ pc = "c_query"
    /\ ~CoverHasQuery(cli)
    /\ LET s == SearchCall(engine[Len(engine)], "self", ToSizeT(cli.kInt),
                           referenceData.n_cols, 0)
       IN /\ searches' = Append(searches, s)
          /\ results' = SearchResult(s.k, s.numQueries)
    /\ log' = Append(log, "search")
    /\ pc' = "save"
    /\ UNCHANGED run_fixed
    /\ UNCHANGED <<trees, engine, kernel, oldFromNewRefs, oldFromNewQueries,
                   unmaps, out, saved>>

(* The end of main(). *)

\* data::Save(distancesFile, distances)
AllknnSaveDistances ==
    /\ prog = "allknn" /\ pc = "save"
    /\ saved' = Append(saved, [file |-> "distances", m |-> results])
    /\ log' = Append(log, "save")
    /\ pc' = "save_neighbors"
    /\ UNCHANGED run_fixed
    /\ UNCHANGED <<trees, engine, kernel, searches, oldFromNewRefs,
                   oldFromNewQueries, unmaps, out, results>>

\* data::Save(neighborsFile, neighbors)
AllknnSaveNeighbors ==
    /\ prog = "allknn" /\ pc = "save_neighbors"
    /\ saved' = Append(saved, [file |-> "neighbors", m |-> results])
    /\ log' = Append(log, "save")
    /\ pc' = "done"
    /\ UNCHANGED run_fixed
    /\ UNCHANGED <<trees, engine, kernel, searches, oldFromNewRefs,
                   oldFromNewQueries, unmaps, out, results>>

---------------------------------------------------------------------------
(* fastmks: main() and RunFastMKS() of fastmks_main.cpp. *)

\* if (k > referenceData.n_cols)
FastmksInvalidK(k, n) == k > n

\* Check on kernel type: the name is none of the ten names listed.
FastmksInvalidKernel(name) ==
    /\ name # "linear" /\ name # "polynomial"
    /\ name # "cosine" /\ name # "gaussian"
    /\ name # "graph" /\ name # "approxGraph"
    /\ name # "triangular" /\ name # "hyptan"
    /\ name # "inv-mq" /\ name # "epanechnikov"

\* if (CLI::HasParam("query_file"))
FastmksLoadHasQuery(c) == c.queryPassed

\* if (queryData.n_elem == 0): the overload of RunFastMKS without query set.
FastmksSelfSearch(q) == NElem(q) = 0

\* The if / else-if chain on kernelType of the branch without query set:
\* the kernel class RunFastMKS<...> is instantiated with, "none" when no
\* arm matches.
KernelDispatchSelf(name) ==
    IF name = "linear" THEN "LinearKernel"
    ELSE IF name = "polynomial" THEN "PolynomialKernel"
    ELSE IF name = "cosine" THEN "CosineDistance"
    ELSE IF name = "gaussian" THEN "GaussianKernel"
    ELSE IF name = "epanechnikov" THEN "EpanechnikovKernel"
    ELSE IF name = "triangular" THEN "TriangularKernel"
    ELSE IF name = "hyptan" THEN "HyperbolicTangentKernel"
    ELSE "none"

\* The same chain of the branch with a query set.
KernelDispatchQuery(name) ==
    IF name = "linear" THEN "LinearKernel"
    ELSE IF name = "polynomial" THEN "PolynomialKernel"
    ELSE IF name = "cosine" THEN "CosineDistance"
    ELSE IF name = "gaussian" THEN "GaussianKernel"
    ELSE IF name = "epanechnikov" THEN "EpanechnikovKernel"
    ELSE IF name = "triangular" THEN "TriangularKernel"
    ELSE IF name = "hyptan" THEN "HyperbolicTangentKernel"
    ELSE "none"

\* CoverTree<IPMetric<KernelType>, ...> tree(referenceData, metric, base)
FastmksRefTree(data, kern, base) ==
    Tree("ref", "cover", data, <<"IPMetric", kern>>, <<base>>)

\* TreeType queryTree(queryData, metric, base)
FastmksQueryTree_DefaultBase(data, kern, base) ==
    Tree("query", "cover", data, <<"IPMetric", kern>>, <<DefaultBase>>)
FastmksQueryTree(data, kern, base) ==
    Tree("query", "cover", data, <<"IPMetric", kern>>, <<base>>)

\* CLI::ParseCommandLine and the CLI::GetParam / CLI::HasParam reads.
FastmksParse ==
    /\ prog = "fastmks" /\ pc = "parse"
    /\ \E kI \in KValues, nv \in BOOLEAN, sg \in BOOLEAN,
          kn \in KernelNames, qa \in QueryArgs,
          bg \in BOOLEAN, b \in BaseValues,
          kp \in BOOLEAN, ip \in BOOLEAN :
          cli' = [DefaultCli EXCEPT !.kInt = kI, !.naive = nv, !.single = sg,
                                    !.kernelType = kn,
                                    !.queryPassed = qa.passed,
                                    !.queryFile = qa.file,
                                    !.baseGiven = bg,
                                    !.base = IF bg THEN b ELSE DefaultBase,
                                    !.kernelsPassed = kp,
                                    !.indicesPassed = ip]
    /\ pc' = "load_ref"
    /\ UNCHANGED <<prog, referenceData, queryData, fatal, warnings, basis,
                 rng, twin>>
    /\ UNCHANGED done_vars

\* data::Load(referenceFile, referenceData, true)
FastmksLoadReference ==
    /\ prog = "fastmks" /\ pc = "load_ref"
    /\ \E c \in 1 .. MaxRef : referenceData' = Loaded(c)
    /\ pc' = "check_k"
    /\ UNCHANGED <<prog, cli, queryData, fatal, warnings, basis,
                 rng, twin>>
    /\ UNCHANGED done_vars

\* Sanity check on k value.
FastmksCheckK ==
    /\ prog = "fastmks" /\ pc = "check_k"
    /\ IF FastmksInvalidK(ToSizeT(cli.kInt), referenceData.n_cols)
       THEN LogFatal("k")
       ELSE pc' = "check_kernel" /\ fatal' = fatal
    /\ UNCHANGED <<prog, cli, referenceData, queryData, warnings, basis,
                 rng, twin>>
    /\ UNCHANGED done_vars

\* Check on kernel type.
FastmksCheckKernel ==
    /\ prog = "fastmks" /\ pc = "check_kernel"
    /\ IF FastmksInvalidKernel(cli.kernelType)
       THEN LogFatal("kernel")
       ELSE pc' = "load_query" /\ fatal' = fatal
    /\ UNCHANGED <<prog, cli, referenceData, queryData, warnings, basis,
                 rng, twin>>
    /\ UNCHANGED done_vars

\* Load the query matrix, if we can.  data::Load(..., true) is fatal when
\* the file cannot be loaded, as for the empty file name.
FastmksLoadQuery ==
    /\ prog = "fastmks" /\ pc = "load_query"
    /\ IF FastmksLoadHasQuery(cli)
       THEN IF cli.queryFile = ""
            THEN LogFatal("load") /\ queryData' = queryData
            ELSE /\ \E c \in 0 .. MaxQuery : queryData' = Loaded(c)
                 /\ pc' = "warn" /\ fatal' = fatal
       ELSE queryData' = queryData /\ pc' = "warn" /\ fatal' = fatal
    /\ UNCHANGED <<prog, cli, referenceData, warnings, basis,
                 rng, twin>>
    /\ UNCHANGED done_vars

\* Naive mode overrides single mode.
FastmksWarn ==
    /\ prog = "fastmks" /\ pc = "warn"
    /\ warnings' = warnings
          \cup (IF cli.naive /\ cli.single THEN {"single ignored"} ELSE {})
    /\ pc' = "dispatch"
    /\ UNCHANGED <<prog, cli, referenceData, queryData, fatal, basis,
                 rng, twin>>
    /\ UNCHANGED done_vars

\* Construct FastMKS object: the kernel object of the arm that matches
\* kernelType is created and RunFastMKS is entered; when no arm matches,
\* main() goes on to save the output.
FastmksDispatch ==
    /\ prog = "fastmks" /\ pc = "dispatch"
    /\ kernel' = IF FastmksSelfSearch(queryData)
                 THEN KernelDispatchSelf(cli.kernelType)
                 ELSE KernelDispatchQuery(cli.kernelType)
    /\ pc' = IF kernel' = "none" THEN "save_kernels" ELSE "fm_run"
    /\ UNCHANGED run_fixed
    /\ UNCHANGED <<trees, engine, searches, oldFromNewRefs,
                   oldFromNewQueries, unmaps, out, results, saved, log>>

\* if (naive) { FastMKS<KernelType> fastmks(referenceData, kernel, false,
\* naive); fastmks.Search([queryData,] k, indices, kernels); }
FastmksNaiveSearch ==
    /\ prog = "fastmks" /\ pc = "fm_run" /\ cli.naive
    /\ LET e == Engine(cli.naive, FALSE, "none", kernel)
           k == ToSizeT(cli.kInt)
           s == IF FastmksSelfSearch(queryData)
                THEN SearchCall(e, "self", k, referenceData.n_cols, 0)
                ELSE SearchCall(e, "points", k, queryData.n_cols, 0)
       IN /\ engine' = Append(engine, e)
          /\ searches' = Append(searches, s)
          /\ results' = SearchResult(s.k, s.numQueries)
          /\ log' = log \o <<"engine", "search">>
    /\ pc' = "save_kernels"
    /\ UNCHANGED run_fixed
    /\ UNCHANGED <<trees, kernel, oldFromNewRefs, oldFromNewQueries, unmaps,
                   out, saved>>

\* else { IPMetric<KernelType> metric(kernel); TreeType tree(referenceData,
\* metric, base); FastMKS<...> fastmks(&tree, single); ... }
FastmksBuildRefTree ==
    /\ prog = "fastmks" /\ pc = "fm_run" /\ ~cli.naive
    /\ trees' = Append(trees, FastmksRefTree(referenceData, kernel, cli.base))
    /\ engine' = Append(engine, Engine(FALSE, cli.single, "cover", kernel))
    /\ log' = log \o <<"build_ref", "engine">>
    /\ pc' = "fm_search"
    /\ UNCHANGED run_fixed
    /\ UNCHANGED <<kernel, searches, oldFromNewRefs, oldFromNewQueries,
                   unmaps, out, results, saved>>

\* without query set: fastmks.Search(k, indices, kernels)
FastmksSearchSelf ==
    /\ prog = "fastmks" /\ pc = "fm_search"
    /\ FastmksSelfSearch(queryData)
    /\ LET s == SearchCall(engine[Len(engine)], "self", ToSizeT(cli.kInt),
                           referenceData.n_cols, 0)
       IN /\ searches' = Append(searches, s)
          /\ results' = SearchResult(s.k, s.numQueries)
    /\ log' = Append(log, "search")
    /\ pc' = "save_kernels"
    /\ UNCHANGED run_fixed
    /\ UNCHANGED <<trees, engine, kernel, oldFromNewRefs, oldFromNewQueries,
                   unmaps, out, saved>>

\* with query set: if (single) fastmks.Search(queryData, k, indices, kernels)
FastmksSearchPoints ==
    /\ prog = "fastmks" /\ pc = "fm_search"
    /\ ~FastmksSelfSearch(queryData) /\ cli.single
    /\ LET s == SearchCall(engine[Len(engine)], "points", ToSizeT(cli.kInt),
                           queryData.n_cols, 0)
       IN /\ searches' = Append(searches, s)
          /\ results' = SearchResult(s.k, s.numQueries)
    /\ log' = Append(log, "search")
    /\ pc' = "save_kernels"
    /\ UNCHANGED run_fixed
    /\ UNCHANGED <<trees, engine, kernel, oldFromNewRefs, oldFromNewQueries,
                   unmaps, out, saved>>

\* with query set: else { TreeType queryTree(queryData, metric, base); ... }
FastmksBuildQueryTree ==
    /\ prog = "fastmks" /\ pc = "fm_search"
    /\ ~FastmksSelfSearch(queryData) /\ ~cli.single
    /\ trees' = Append(trees, FastmksQueryTree(queryData, kernel, cli.base))
    /\ log' = Append(log, "build_query")
    /\ pc' = "fm_search_tree"
    /\ UNCHANGED run_fixed
    /\ UNCHANGED <<engine, kernel, searches, oldFromNewRefs,
                   oldFromNewQueries, unmaps, out, results, saved>>

\* fastmks.Search(&queryTree, k, indices, kernels)
FastmksSearchTree ==
    /\ prog = "fastmks" /\ pc = "fm_search_tree"
    /\ LET s == SearchCall(engine[Len(engine)], "tree", ToSizeT(cli.kInt),
                           queryData.n_cols, Len(trees))
       IN /\ searches' = Append(searches, s)
          /\ results' = SearchResult(s.k, s.numQueries)
    /\ log' = Append(log, "search")
    /\ pc' = "save_kernels"
    /\ UNCHANGED run_fixed
    /\ UNCHANGED <<trees, engine, kernel, oldFromNewRefs, oldFromNewQueries,
                   unmaps, out, saved>>

\* if (CLI::HasParam("kernels_file")) data::Save(kernelsFile, kernels, false)
FastmksSaveKernels ==
    /\ prog = "fastmks" /\ pc = "save_kernels"
    /\ IF cli.kernelsPassed
       THEN /\ saved' = Append(saved, [file |-> "kernels", m |-> results])
            /\ log' = Append(log, "save")
       ELSE UNCHANGED <<saved, log>>
    /\ pc' = "save_indices"
    /\ UNCHANGED run_fixed
    /\ UNCHANGED <<trees, engine, kernel, searches, oldFromNewRefs,
                   oldFromNewQueries, unmaps, out, results>>

\* if (CLI::HasParam("indices_file")) data::Save(indicesFile, indices, false)
FastmksSaveIndices ==
    /\ prog = "fastmks" /\ pc = "save_indices"
    /\ IF cli.indicesPassed
       THEN /\ saved' = Append(saved, [file |-> "indices", m |-> results])
            /\ log' = Append(log, "save")
       ELSE UNCHANGED <<saved, log>>
    /\ pc' = "done"
    /\ UNCHANGED run_fixed
    /\ UNCHANGED <<trees, engine, kernel, searches, oldFromNewRefs,
                   oldFromNewQueries, unmaps, out, results>>

---------------------------------------------------------------------------
Next ==
    \/ AllknnParse
    \/ AllknnLoadReference
    \/ AllknnLoadQuery
    \/ AllknnCheckK
    \/ AllknnCheckLeafSize
    \/ AllknnWarn
    \/ AllknnRandomBasis
    \/ AllknnNaiveSearch
    \/ KdBuildRefTree
    \/ KdBuildQueryTree
    \/ KdSearchTree
    \/ KdSearchPoints
    \/ KdSearchSelf
    \/ KdUnmap
    \/ RStarBuildRefTree
    \/ RStarBuildQueryTree
    \/ RStarSearchTree
    \/ RStarSearchPoints
    \/ RStarSearchSelf
    \/ CoverBuildRefTree
    \/ CoverBuildQueryTree
    \/ CoverSearchTree
    \/ CoverSearchPoints
    \/ CoverSearchSelf
    \/ AllknnSaveDistances
    \/ AllknnSaveNeighbors
    \/ FastmksParse
    \/ FastmksLoadReference
    \/ FastmksCheckK
    \/ FastmksCheckKernel
    \/ FastmksLoadQuery
    \/ FastmksWarn
    \/ FastmksDispatch
    \/ FastmksNaiveSearch
    \/ FastmksBuildRefTree
    \/ FastmksSearchSelf
    \/ FastmksSearchPoints
    \/ FastmksBuildQueryTree
    \/ FastmksSearchTree
    \/ FastmksSaveKernels
    \/ FastmksSaveIndices

Spec == Init /\ [][Next]_vars

---------------------------------------------------------------------------
(* Vocabulary of the properties. *)

\* The run has not yet passed the check of k.
BeforeCheckK ==
    IF prog = "allknn"
    THEN pc \in {"parse", "load_ref", "load_query", "check_k"}
    ELSE pc \in {"parse", "load_ref", "check_k"}

\* allknn has not yet passed the check of the leaf size.
BeforeCheckLeafSize == BeforeCheckK \/ pc = "check_leaf"

\* allknn has passed both warnings.
AllknnAfterWarn == ~BeforeCheckLeafSize /\ pc \notin {"warn", "aborted"}

\* The run is at or past its save step.
AtOrAfterSave ==
    pc \in {"save", "save_neighbors", "save_kernels", "save_indices", "done"}

\* No tree was built, no Search call made, no output saved.
NoWork == trees = <<>> /\ engine = <<>> /\ searches = <<>> /\ saved = <<>>

ReferenceLoaded == referenceData.stage = "data"

\* The run has stopped in a fatal error on k.
RejectedForK == pc = "aborted" /\ fatal = "k"

\* C1: once the reference matrix is loaded and the requested k exceeds its
\* number of columns, no tree is built, no Search call is made and nothing
\* is saved, and as soon as the check of k has run the run has ended in the
\* fatal error on k (allknn and fastmks alike).
C1_LargeKIsFatal ==
    (ReferenceLoaded /\ ToSizeT(cli.kInt) > referenceData.n_cols)
        => (NoWork /\ (BeforeCheckK \/ RejectedForK))

\* C1 witness: fastmks has ended in the fatal error for a k one above the
\* number of reference points.
C1_Witness ==
    /\ prog = "fastmks" /\ RejectedForK
    /\ cli.kInt = referenceData.n_cols + 1

\* C2 as stated: a request with k = 0 ends like a k above the reference
\* set: no tree, no Search call, no save, and the fatal error on k once the
\* check has run.
C2_ZeroKIsFatal ==
    (ReferenceLoaded /\ ToSizeT(cli.kInt) = 0)
        => (NoWork /\ (BeforeCheckK \/ RejectedForK))

\* The adapter each documented kernel name stands for.
NamedAdapter(name) ==
    CASE name = "linear" -> "LinearKernel"
      [] name = "polynomial" -> "PolynomialKernel"
      [] name = "cosine" -> "CosineDistance"
      [] name = "gaussian" -> "GaussianKernel"
      [] name = "epanechnikov" -> "EpanechnikovKernel"
      [] name = "triangular" -> "TriangularKernel"
      [] name = "hyptan" -> "HyperbolicTangentKernel"
      [] OTHER -> "no adapter"

\* The number of query points the search of this run answers for.
FastmksNumQueries ==
    IF FastmksSelfSearch(queryData) THEN referenceData.n_cols
    ELSE queryData.n_cols

\* C3 as stated: a fastmks run makes no Search call when it ends in the
\* fatal error on the kernel name, never makes more than one, and when it
\* reaches its save step it has made exactly one, with the adapter of the
\* given name, which filled k entries for every query point.
C3_KernelSearchedOrFatal ==
    prog = "fastmks" =>
        /\ Len(searches) <= 1
        /\ (fatal = "kernel" => searches = <<>>)
        /\ AtOrAfterSave =>
              /\ Len(searches) = 1
              /\ searches[1].adapter = NamedAdapter(cli.kernelType)
              /\ results.n_rows = ToSizeT(cli.kInt)
              /\ results.n_cols = FastmksNumQueries

\* The parts of C4 about trees, engine and warning: with the naive flag no
\* tree is ever built, every search object is in naive mode, the warning is
\* logged only when single is set too, and is logged in every run that
\* gets past the warning step with both flags set.
C4_NaiveSkipsTrees ==
    (pc # "parse" /\ cli.naive) =>
        /\ trees = <<>>
        /\ \A i \in 1 .. Len(engine) : engine[i].naive
        /\ \A i \in 1 .. Len(searches) : searches[i].mode = "naive"
        /\ ("single ignored" \in warnings) => cli.single
        /\ (cli.single /\ (AtOrAfterSave \/ searches # <<>>))
              => "single ignored" \in warnings

\* C4 as stated: the above, and a run with the naive flag that reaches its
\* end has completed its search.
C4_NaiveStillSearches ==
    /\ C4_NaiveSkipsTrees
    /\ (cli.naive /\ pc = "done") => Len(searches) = 1

\* A query file was specified: --query_file names a file.
QueryFileSpecified == cli.queryFile # ""

\* C5 as stated: in every program, mode and tree variant, the Search call
\* made is the one without query points exactly when no query file was
\* specified (so that the tests of all branches decide alike).
C5_SelfSearchIffNoQueryFile ==
    \A i \in 1 .. Len(searches) :
        (searches[i].form = "self") <=> ~QueryFileSpecified


\* The Unmap overload the claim assigns to (query file given, single mode).
RemapCaseFor(queryGiven, single) ==
    CASE queryGiven /\ ~single -> "ref+query"
      [] queryGiven /\ single -> "ref"
      [] ~queryGiven -> "ref+ref"

\* C6: in the kd-tree path of allknn exactly one Unmap call follows the
\* search; it is the overload the pair (query file given, single mode)
\* selects, and it matches the Search call made (query tree: reference and
\* query permutation; query points: reference permutation only; no query
\* points: the reference permutation on both sides); every permutation
\* vector handed to it was filled by a tree construction of this run.
C6_UnmapCaseMatchesSearch ==
    /\ Len(unmaps) <= 1
    /\ unmaps # <<>> => (prog = "allknn" /\ AllknnBranch(cli) = "kd")
    /\ (prog = "allknn" /\ AllknnBranch(cli) = "kd" /\ AtOrAfterSave)
          => Len(unmaps) = 1
    /\ \A i \in 1 .. Len(unmaps) :
          LET u == unmaps[i] IN
          /\ u.form = RemapCaseFor(cli.queryFile # "", cli.single)
          /\ Len(searches) = 1
          /\ (u.form = "ref+query") <=> (searches[1].form = "tree")
          /\ (u.form = "ref") <=> (searches[1].form = "points")
          /\ (u.form = "ref+ref") <=> (searches[1].form = "self")
          /\ u.refPermFilled
          /\ (u.queryPerm # "none") => u.queryPermFilled
          /\ (u.queryPerm = "oldFromNewQueries")
                => \E t \in 1 .. Len(trees) :
                      trees[t].side = "query" /\ trees[t].variant = "kd"

\* C6 witness: the kd-tree path has made the Unmap call with both
\* permutations after a dual-tree search over a query tree.
C6_Witness ==
    /\ Len(unmaps) = 1 /\ unmaps[1].form = "ref+query"
    /\ Len(searches) = 1 /\ searches[1].mode = "dual"

\* Every log entry of kind a comes before every log entry of kind b.
AllBefore(a, b) ==
    \A i \in 1 .. Len(log), j \in 1 .. Len(log) :
        (log[i] \in a /\ log[j] \in b) => i < j

\* The order of the steps of a run, whatever steps it takes: trees and
\* search object before the search, the search before the Unmap, everything
\* before the saves; at most one Search and one Unmap call; a search in a
\* tree mode has its reference tree, a search over a query tree has that
\* query tree; what was saved is what the result matrices still hold.
C7_StepsInOrder ==
    /\ Len(searches) <= 1 /\ Len(engine) <= 1 /\ Len(unmaps) <= 1
    /\ AllBefore({"build_ref", "build_query", "engine"}, {"search"})
    /\ AllBefore({"search"}, {"unmap"})
    /\ AllBefore({"build_ref", "build_query", "engine", "search", "unmap"},
                 {"save"})
    /\ \A i \in 1 .. Len(searches) :
          LET s == searches[i] IN
          /\ s.mode \in {"naive", "single", "dual"}
          /\ (s.mode = "naive") <=> (trees = <<>>)
          /\ (s.mode # "naive") => trees[1].side = "ref"
          /\ (s.form = "tree") =>
                /\ s.mode = "dual"
                /\ s.queryTree \in 1 .. Len(trees)
                /\ trees[s.queryTree].side = "query"
    /\ unmaps # <<>> => searches # <<>>
    /\ \A i \in 1 .. Len(saved) : saved[i].m = results

\* C7 as stated: the above, and whenever a result matrix has been saved the
\* run has made its Search call (and, in the kd-tree path, its Unmap call)
\* before.
C7_SavedOnlyAfterSearch ==
    /\ C7_StepsInOrder
    /\ saved # <<>> =>
          /\ Len(searches) = 1
          /\ (prog = "allknn" /\ AllknnBranch(cli) = "kd") => Len(unmaps) = 1

\* The tree variant the claim assigns to the set of tree flags given.
VariantFor(flags) ==
    IF "cover_tree" \in flags THEN "cover"
    ELSE IF "r_tree" \in flags THEN "rstar"
    ELSE "kd"

\* C8: allknn without naive mode builds trees of one variant only, the one
\* the set of tree flags selects (cover tree if cover_tree is among them,
\* else R*-tree if r_tree is, else kd-tree), whatever their order; a run
\* that reaches its save step has built such a tree; the warning on
\* cover_tree and r_tree is logged only when both are given, and always
\* once the warning step is passed with both given.
C8_OneTreeVariant ==
    (prog = "allknn" /\ pc # "parse" /\ ~cli.naive) =>
        /\ \A i \in 1 .. Len(trees) :
              trees[i].variant = VariantFor(Range(cli.treeArgs))
        /\ \A i \in 1 .. Len(engine) :
              engine[i].variant = VariantFor(Range(cli.treeArgs))
        /\ AtOrAfterSave => trees # <<>>
        /\ ("cover_tree overrides r_tree" \in warnings)
              <=> (AllknnAfterWarn /\ Range(cli.treeArgs)
                                        = {"cover_tree", "r_tree"})

\* C8 witness: r_tree was given last, after cover_tree, and the run has
\* built a cover tree and logged the warning.
C8_Witness ==
    /\ prog = "allknn" /\ cli.treeArgs = <<"cover_tree", "r_tree">>
    /\ trees # <<>> /\ trees[1].variant = "cover"
    /\ "cover_tree overrides r_tree" \in warnings

\* The cover trees built so far.
CoverTrees == {i \in 1 .. Len(trees) : trees[i].variant = "cover"}

\* C9 as stated: every cover tree of allknn and of fastmks has the base of
\* the configuration (the default 2.0 when none is given), and all cover
\* trees of a run have the same base.
C9_BaseIsConfigured ==
    /\ \A i \in CoverTrees : trees[i].params = <<cli.base>>
    /\ \A i \in CoverTrees, j \in CoverTrees :
          trees[i].params = trees[j].params

\* C9 amended: every cover tree of fastmks has the base given by --base,
\* which is 2.0 when the user gives none; every cover tree of allknn has
\* the fixed base 1.3; all cover trees of a run have the same base.
C9_BaseFastmksConfiguredAllknnFixed ==
    /\ prog = "fastmks" =>
          /\ \A i \in 1 .. Len(trees) :
                trees[i].variant = "cover" /\ trees[i].params = <<cli.base>>
          /\ (pc # "parse" /\ ~cli.baseGiven) => cli.base = 20
    /\ prog = "allknn" =>
          \A i \in CoverTrees : trees[i].params = <<13>>
    /\ \A i \in CoverTrees, j \in CoverTrees :
          trees[i].params = trees[j].params

\* C9 witness: fastmks has built its reference tree and its query tree
\* with a base the user gave.
C9_Witness ==
    /\ prog = "fastmks" /\ cli.baseGiven /\ cli.base # DefaultBase
    /\ Len(trees) = 2 /\ trees[2].side = "query"

\* C10: in allknn a leaf size below 1 lets no tree be built, no Search
\* call be made and nothing be saved, whatever the flags, and once the
\* check of the leaf size has run the run has ended in a fatal error; the
\* fatal error on the leaf size occurs for no leaf size of at least 1.
C10_SmallLeafSizeIsFatal ==
    prog = "allknn" =>
        /\ (pc # "parse" /\ cli.lsInt < 1)
              => (NoWork /\ (BeforeCheckLeafSize \/ pc = "aborted"))
        /\ fatal = "leaf_size" => cli.lsInt < 1

\* C10 witness: the run has ended in the fatal error on a leaf size of 0
\* with naive, cover_tree and r_tree all given.
C10_Witness ==
    /\ prog = "allknn" /\ pc = "aborted" /\ fatal = "leaf_size"
    /\ cli.lsInt = 0 /\ cli.naive
    /\ Range(cli.treeArgs) = {"cover_tree", "r_tree"}


\* C11: in allknn the generator is seeded before anything else is done
\* (every draw and every tree construction finds it seeded); with a nonzero
\* seed its seed is that seed, so that a second run of the same command
\* line on the same files has the same generator, makes the same draws in
\* the random basis loop and applies the same q; the seeds of the two runs
\* differ only when the seed parameter is 0.
C11_SameSeedSameRun ==
    /\ (rng.draws > 0 \/ trees # <<>>) => (prog = "fastmks" \/ rng.seeded)
    /\ rng.draws = Len(basis.draws)
    /\ (prog = "allknn" /\ pc # "parse") =>
          /\ rng.seeded /\ twin.rng.seeded
          /\ (rng.seed # twin.rng.seed) => cli.seed = 0
          /\ (cli.seed # 0) =>
                /\ rng.seed = ToSizeT(cli.seed)
                /\ twin.rng = rng
                /\ twin.basis = basis

\* C11 witness: with a nonzero seed both runs have left the random basis
\* loop after one failed draw and one accepted draw.
C11_Witness ==
    /\ prog = "allknn" /\ cli.seed # 0 /\ cli.randomBasis /\ pc = "run"
    /\ basis.failed = 1 /\ basis.ref = 1
    /\ twin.left /\ twin.basis.failed = 1


\* The run has a separate query set: a query matrix that holds points.
HasQuerySet == NElem(queryData) > 0

\* Two trees agree in tree variant, metric and construction parameters.
SameConstruction(t, u) ==
    t.variant = u.variant /\ t.metric = u.metric /\ t.params = u.params

\* The part of C12 about the Search calls that are made: without naive
\* mode and with a separate query set, a single-tree run builds no query
\* tree and searches with the query points only; a dual-tree run searches
\* only with a query tree, built over the query set like the reference tree
\* (same variant, metric and construction parameters).
C12_QueryTreeLikeReferenceTree ==
    (pc # "parse" /\ ~cli.naive /\ HasQuerySet) =>
        /\ \A i \in 1 .. Len(trees) :
              /\ (trees[i].side = "query") <=> (i = 2)
              /\ SameConstruction(trees[i], trees[1])
        /\ Len(trees) <= (IF cli.single THEN 1 ELSE 2)
        /\ \A i \in 1 .. Len(searches) :
              LET s == searches[i] IN
              IF cli.single
              THEN s.form = "points" /\ s.mode = "single" /\ Len(trees) = 1
              ELSE /\ s.form = "tree" /\ s.mode = "dual"
                   /\ s.queryTree = 2 /\ Len(trees) = 2
                   /\ trees[2].n = queryData.n_cols

\* C12 as stated: the above, and every such run that reaches its save step
\* has made that Search call (after building the query tree in dual-tree
\* mode).
C12_QuerySearchIsMade ==
    /\ C12_QueryTreeLikeReferenceTree
    /\ (~cli.naive /\ HasQuerySet /\ AtOrAfterSave) =>
          /\ Len(searches) = 1
          /\ Len(trees) = (IF cli.single THEN 1 ELSE 2)


\* A kd-tree was built in this run.
KdTreeBuilt == \E i \in 1 .. Len(trees) : trees[i].variant = "kd"

\* C13: in allknn an Unmap call is made only when a kd-tree was built, and
\* a run that reaches its save step has made one exactly when it built a
\* kd-tree; only the kd-tree path fills a permutation vector; in the naive,
\* R*-tree and cover tree paths the search writes into neighbors /
\* distances, which are saved as the search left them; in the kd-tree path
\* the search writes into neighborsOut / distancesOut and what is saved is
\* their mapped-back copy.
C13_UnmapIffKdTree ==
    prog = "allknn" =>
        /\ unmaps # <<>> => KdTreeBuilt
        /\ AtOrAfterSave => (KdTreeBuilt <=> Len(unmaps) = 1)
        /\ (oldFromNewRefs \/ oldFromNewQueries) => KdTreeBuilt
        /\ KdTreeBuilt => oldFromNewRefs
        /\ (searches # <<>> /\ ~KdTreeBuilt) =>
              /\ out = EmptyMat
              /\ results = SearchResult(searches[1].k, searches[1].numQueries)
        /\ (searches # <<>> /\ KdTreeBuilt) =>
              /\ out = SearchResult(searches[1].k, searches[1].numQueries)
              /\ results = (IF unmaps = <<>> THEN EmptyMat ELSE Unmapped(out))
        /\ \A i \in 1 .. Len(saved) :
              /\ Len(searches) = 1
              /\ saved[i].m.stage = (IF KdTreeBuilt THEN "remapped" ELSE "raw")
              /\ saved[i].m.n_rows = searches[1].k
              /\ saved[i].m.n_cols = searches[1].numQueries

\* C13 witness: the kd-tree path has saved both matrices, mapped back.
C13_Witness ==
    /\ prog = "allknn" /\ pc = "done" /\ KdTreeBuilt
    /\ Len(saved) = 2 /\ saved[2].m.stage = "remapped"
    /\ saved[2].m.n_rows > 0

\* allknn has not yet reached the random basis loop, or was ended before.
BeforeBasis == BeforeCheckLeafSize \/ pc \in {"warn", "aborted"}

\* allknn has left the random basis step.
AfterBasis == ~BeforeBasis /\ pc # "basis"

\* The draw was accepted: the QR factorization succeeded and det(q) >= 0.
Accepted(o) == o.qrOk /\ o.detOk

=============================================================================
